---- MODULE Spec2Model ----
(***************************************************************************)
(* Model of src/matrix.cpp: a square matrix product computed by nthreads   *)
(* pthread workers that rendezvous with main at start_barrier and then     *)
(* each fill a contiguous block of rows of matrix_c.                       *)
(*                                                                         *)
(* The matrix dimension (constexpr DIM = 1000 in the source) is scaled     *)
(* down: the variable DIM is drawn from 1..MaxDim in Init and is never     *)
(* changed.  The values stored in the matrices stay far below 2^63 for     *)
(* every dimension up to the source's 1000, so the arithmetic on long is   *)
(* modelled on the integers.                                               *)
(***************************************************************************)
EXTENDS Integers, Sequences, FiniteSets, TLC

\* Bounds of the model: largest dimension and largest worker count asked for
\* on the command line, for whole runs (Spec) and for runs of main up to the
\* end of its thread-creation loop (SpecPart).
MaxDim == 2
MaxArg == 4
MaxPartDim == 6
MaxPartArg == 7

\* int nthreads = 4;
DefaultThreads == 4

VARIABLES
    DIM,            \* matrix dimension
    argc, argv1,    \* command line: argc and the characters of argv[1]
    pc,             \* position of main
    status,         \* value returned by main; -1 while main runs
    cerr,           \* diagnostics written to std::cerr
    stamps,         \* names of the clock::now() results main has recorded
    matrix_a, matrix_b, matrix_b_t, matrix_c,
    nthreads,       \* effective worker count
    bar_state,      \* start_barrier: "uninit", "init" or "destroyed"
    bar_count,      \* participant count given to pthread_barrier_init
    bar_waiting,    \* participants currently blocked in pthread_barrier_wait
    bar_arrivals,   \* history: calls of pthread_barrier_wait so far
    bar_releases,   \* history: number of times the barrier has released
    threads_live, targs_live,   \* the new[]-ed arrays have not been delete[]-d
    targs,          \* ThreadArgs array
    base, rem, start, t,        \* locals of main
    wstate,         \* per worker: position in multiply_range
    wi, wj,         \* per worker: loop variables i and j
    joined,         \* per worker: pthread_join on it has returned 0
    cwrites,        \* history: per cell of matrix_c, the workers that wrote it
    fout,           \* lines written to serial.txt by print()
    rf,             \* keys written to profile_results.txt
    cwcount,        \* history: per cell of matrix_c, the number of assignments
    freed_read      \* history: a worker has read a ThreadArgs field of the
                    \* delete[]-d targs array

vars == <<DIM, argc, argv1, pc, status, cerr, stamps,
          matrix_a, matrix_b, matrix_b_t, matrix_c, nthreads,
          bar_state, bar_count, bar_waiting, bar_arrivals, bar_releases,
          threads_live, targs_live, targs, base, rem, start, t,
          wstate, wi, wj, joined, cwrites, fout, rf, cwcount, freed_read>>

mainVars   == <<pc, status, cerr, stamps, base, rem, start, t>>
matVars    == <<matrix_a, matrix_b, matrix_b_t, matrix_c, cwrites>>
inputVars  == <<DIM, argc, argv1>>
barVars    == <<bar_state, bar_count, bar_waiting, bar_arrivals, bar_releases>>
heapVars   == <<threads_live, targs_live, targs>>
workerVars == <<wstate, wi, wj>>

Idx == 0 .. (DIM - 1)
Workers == 0 .. (nthreads - 1)

--------------------------------------------------------------------------
\* Command line.  argv[1] is a sequence of characters.

DigitChars == <<"0", "1", "2", "3", "4", "5", "6", "7", "8", "9">>

IsDigit(c) == \E d \in 1..10 : DigitChars[d] = c

DigitVal(c) == (CHOOSE d \in 1..10 : DigitChars[d] = c) - 1

\* Value of the longest prefix of decimal digits of s, starting from acc.
RECURSIVE AtoiDigits(_, _)
AtoiDigits(s, acc) ==
    IF s = <<>> \/ ~IsDigit(Head(s)) THEN acc
    ELSE AtoiDigits(Tail(s), 10 * acc + DigitVal(Head(s)))

\* std::atoi: optional sign, then digits; 0 when no digits can be read.
Atoi(s) ==
    IF s = <<>> THEN 0
    ELSE IF Head(s) = "-" THEN 0 - AtoiDigits(Tail(s), 0)
    ELSE IF Head(s) = "+" THEN AtoiDigits(Tail(s), 0)
    ELSE AtoiDigits(s, 0)

ArgStrings(maxArg) ==
    {<<"-", "1">>, <<"0">>, <<"x">>, <<"2", "x">>}
        \cup {<<DigitChars[n + 1]>> : n \in 1..maxArg}

\* Mutant: the test parsed > 0 is left out.
RequestedThreads_NoPositiveCheck(ac, av) ==
    IF ac > 1 THEN Atoi(av) ELSE DefaultThreads

\* Worker count asked for on the command line (before clamping).
RequestedThreads(ac, av) ==
    IF ac > 1 /\ Atoi(av) > 0 THEN Atoi(av) ELSE DefaultThreads

\* Mutant: the clamp is left out.
ClampThreads_None(n, dim) == n

\* if (nthreads > DIM) nthreads = DIM;
ClampThreads(n, dim) == IF n > dim THEN dim ELSE n

--------------------------------------------------------------------------
\* init()

InitA(dim) == [i \in 0..(dim - 1) |-> [j \in 0..(dim - 1) |-> i + j]]
InitB(dim) == [i \in 0..(dim - 1) |-> [j \in 0..(dim - 1) |-> i - j]]
ZeroMatrix(dim) == [i \in 0..(dim - 1) |-> [j \in 0..(dim - 1) |-> 0]]

\* Mutant: matrix_b is copied without swapping the indices.
TransposeOf_Copy(b, dim) == [j \in 0..(dim - 1) |-> [i \in 0..(dim - 1) |-> b[j][i]]]

\* Mutant: the inner loop of the transposition starts at j = i.
TransposeOf_UpperOnly(b, dim) ==
    [j \in 0..(dim - 1) |-> [i \in 0..(dim - 1) |-> IF i <= j THEN b[i][j] ELSE 0]]

\* Second loop nest of init(): matrix_b_t[j][i] = matrix_b[i][j].
TransposeOf(b, dim) == [j \in 0..(dim - 1) |-> [i \in 0..(dim - 1) |-> b[i][j]]]

\* sum += arow[k] * browt[k] for k = 0 .. n-1
RECURSIVE RowDot(_, _, _)
RowDot(arow, browt, n) ==
    IF n = 0 THEN 0
    ELSE RowDot(arow, browt, n - 1) + arow[n - 1] * browt[n - 1]

--------------------------------------------------------------------------
\* Partitioning and the barrier's participant count.

\* Mutant: main is not counted among the participants.
BarrierParticipants_WorkersOnly(n) == n

\* Mutant: one participant too many is counted.
BarrierParticipants_OneTooMany(n) == n + 2

\* pthread_barrier_init(&start_barrier, nullptr, nthreads + 1)
BarrierParticipants(n) == n + 1

\* Mutant: the remainder rows are handed to nobody.
RowsFor_NoRemainder(tt, b, r) == b

\* Mutant: t <= rem in place of t < rem.
RowsFor_OffByOne(tt, b, r) == b + (IF tt <= r THEN 1 ELSE 0)

\* int rows = base + (t < rem ? 1 : 0);
RowsFor(tt, b, r) == b + (IF tt < r THEN 1 ELSE 0)

\* Values a read of a ThreadArgs field can yield once targs is delete[]-d.
FreedReads == 0 .. DIM

ReadRowStart(w) == IF targs_live THEN {targs[w].row_start} ELSE FreedReads
ReadRowEnd(w)   == IF targs_live THEN {targs[w].row_end} ELSE FreedReads

Unwritten == [row_start |-> -1, row_end |-> -1]

--------------------------------------------------------------------------
\* State at entry to main: statics are zero-initialised.
InitWith(maxDim, maxArg) ==
    /\ DIM \in 1..maxDim
    /\ argc \in {1, 2}
    /\ argv1 \in (IF argc = 1 THEN {<<>>} ELSE ArgStrings(maxArg))
    /\ pc = "start"
    /\ status = -1
    /\ cerr = <<>>
    /\ stamps = {}
    /\ matrix_a = ZeroMatrix(DIM)
    /\ matrix_b = ZeroMatrix(DIM)
    /\ matrix_b_t = ZeroMatrix(DIM)
    /\ matrix_c = ZeroMatrix(DIM)
    /\ nthreads = DefaultThreads
    /\ bar_state = "uninit"
    /\ bar_count = 0
    /\ bar_waiting = 0
    /\ bar_arrivals = 0
    /\ bar_releases = 0
    /\ threads_live = FALSE
    /\ targs_live = FALSE
    /\ targs = <<>>
    /\ base = 0
    /\ rem = 0
    /\ start = 0
    /\ t = 0
    /\ wstate = <<>>
    /\ wi = <<>>
    /\ wj = <<>>
    /\ joined = <<>>
    /\ cwrites = [i \in Idx |-> [j \in Idx |-> {}]]
    /\ fout = <<>>
    /\ rf = <<>>
    /\ cwcount = [i \in Idx |-> [j \in Idx |-> 0]]
    /\ freed_read = FALSE

Init == InitWith(MaxDim, MaxArg)

InitPart == InitWith(MaxPartDim, MaxPartArg)

--------------------------------------------------------------------------
\* main

\* t0 = now(); init(); t1 = now();
MainInit ==
    /\ pc = "start"
    /\ matrix_a' = InitA(DIM)
    /\ matrix_b' = InitB(DIM)
    /\ matrix_c' = ZeroMatrix(DIM)
    /\ matrix_b_t' = TransposeOf(InitB(DIM), DIM)
    /\ stamps' = stamps \cup {"t0", "t1"}
    /\ pc' = "parse"
    /\ UNCHANGED <<status, cerr, base, rem, start, t, cwrites, nthreads, fout,
                   joined>>
    /\ UNCHANGED <<inputVars, barVars, heapVars, workerVars>>
    /\ UNCHANGED <<rf, cwcount, freed_read>>

\* Lines 100-106: default, atoi, clamp.
MainParse ==
    /\ pc = "parse"
    /\ nthreads' = ClampThreads(RequestedThreads(argc, argv1), DIM)
    /\ pc' = "barrier_init"
    /\ UNCHANGED <<status, cerr, stamps, base, rem, start, t, fout, joined>>
    /\ UNCHANGED <<inputVars, matVars, barVars, heapVars, workerVars>>
    /\ UNCHANGED <<rf, cwcount, freed_read>>

\* pthread_barrier_init returns 0; then the two new[] and the loop's locals.
MainBarrierInit ==
    /\ pc = "barrier_init"
    /\ bar_state' = "init"
    /\ bar_count' = BarrierParticipants(nthreads)
    /\ threads_live' = TRUE
    /\ targs_live' = TRUE
    /\ targs' = [w \in Workers |-> Unwritten]
    /\ wstate' = [w \in Workers |-> "none"]
    /\ wi' = [w \in Workers |-> 0]
    /\ wj' = [w \in Workers |-> 0]
    /\ joined' = [w \in Workers |-> FALSE]
    /\ base' = DIM \div nthreads
    /\ rem' = DIM % nthreads
    /\ start' = 0
    /\ t' = 0
    /\ pc' = "spawn"
    /\ UNCHANGED <<status, cerr, stamps, nthreads, fout,
                   bar_waiting, bar_arrivals, bar_releases>>
    /\ UNCHANGED <<inputVars, matVars>>
    /\ UNCHANGED <<rf, cwcount, freed_read>>

\* pthread_barrier_init returns non-zero: diagnostic, return 1.
MainBarrierInitFail ==
    /\ pc = "barrier_init"
    /\ cerr' = Append(cerr, "Failed to init barrier")
    /\ status' = 1
    /\ pc' = "returned"
    /\ UNCHANGED <<stamps, base, rem, start, t, nthreads, fout, joined>>
    /\ UNCHANGED <<inputVars, matVars, barVars, heapVars, workerVars>>
    /\ UNCHANGED <<rf, cwcount, freed_read>>

\* One iteration of the creation loop in which pthread_create returns 0.
MainSpawn ==
    /\ pc = "spawn"
    /\ t < nthreads
    /\ LET rows == RowsFor(t, base, rem)
           end  == start + rows
       IN /\ targs' = [targs EXCEPT ![t] = [row_start |-> start, row_end |-> end]]
          /\ start' = end
    /\ wstate' = [wstate EXCEPT ![t] = "created"]
    /\ t' = t + 1
    /\ UNCHANGED <<pc, status, cerr, stamps, base, rem, nthreads, fout, joined,
                   threads_live, targs_live, wi, wj>>
    /\ UNCHANGED <<inputVars, matVars, barVars>>
    /\ UNCHANGED <<rf, cwcount, freed_read>>

\* Mutant: after the diagnostic the loop goes on to the next worker.
MainSpawnFail_Continue ==
    /\ pc = "spawn"
    /\ t < nthreads
    /\ LET rows == RowsFor(t, base, rem)
           end  == start + rows
       IN /\ targs' = [targs EXCEPT ![t] = [row_start |-> start, row_end |-> end]]
          /\ start' = end
    /\ cerr' = Append(cerr, "Failed to create multiply thread")
    /\ t' = t + 1
    /\ UNCHANGED <<pc, status, stamps, base, rem, nthreads, fout, joined,
                   threads_live, targs_live>>
    /\ UNCHANGED <<inputVars, matVars, barVars, workerVars>>
    /\ UNCHANGED <<rf, cwcount, freed_read>>

\* One iteration in which pthread_create fails: diagnostic, delete[] both
\* arrays; the return statement is MainReturnFailure.
MainSpawnFail ==
    /\ pc = "spawn"
    /\ t < nthreads
    /\ LET rows == RowsFor(t, base, rem)
           end  == start + rows
       IN targs' = [targs EXCEPT ![t] = [row_start |-> start, row_end |-> end]]
    /\ cerr' = Append(cerr, "Failed to create multiply thread")
    /\ threads_live' = FALSE
    /\ targs_live' = FALSE
    /\ pc' = "create_failed"
    /\ UNCHANGED <<status, stamps, base, rem, start, t, nthreads, fout, joined>>
    /\ UNCHANGED <<inputVars, matVars, barVars, workerVars>>
    /\ UNCHANGED <<rf, cwcount, freed_read>>

\* The barrier trips: every blocked participant is released.
ReleaseWorkers(ws) ==
    [w \in DOMAIN ws |-> IF ws[w] = "waiting" THEN "released" ELSE ws[w]]

\* Mutant: main goes on to take its timestamp without waiting at the barrier.
MainBarrierWait_Skipped ==
    /\ pc = "spawn"
    /\ t >= nthreads
    /\ pc' = "stamp"
    /\ UNCHANGED <<status, cerr, stamps, base, rem, start, t, nthreads, fout,
                   joined>>
    /\ UNCHANGED <<inputVars, matVars, barVars, heapVars, workerVars>>
    /\ UNCHANGED <<rf, cwcount, freed_read>>

\* Loop exit, then main's pthread_barrier_wait(&start_barrier).
MainBarrierWait ==
    /\ pc = "spawn"
    /\ t >= nthreads
    /\ bar_arrivals' = bar_arrivals + 1
    /\ IF bar_waiting + 1 = bar_count
       THEN /\ bar_waiting' = 0
            /\ bar_releases' = bar_releases + 1
            /\ wstate' = ReleaseWorkers(wstate)
            /\ pc' = "stamp"
       ELSE /\ bar_waiting' = bar_waiting + 1
            /\ pc' = "blocked"
            /\ UNCHANGED <<bar_releases, wstate>>
    /\ UNCHANGED <<status, cerr, stamps, base, rem, start, t, nthreads, fout,
                   joined, bar_state, bar_count, wi, wj>>
    /\ UNCHANGED <<inputVars, matVars, heapVars>>
    /\ UNCHANGED <<rf, cwcount, freed_read>>

\* auto t_start_mult = clock::now();  and the join loop's t = 0.
MainStamp ==
    /\ pc = "stamp"
    /\ stamps' = stamps \cup {"t_start_mult"}
    /\ t' = 0
    /\ pc' = "join"
    /\ UNCHANGED <<status, cerr, base, rem, start, nthreads, fout, joined>>
    /\ UNCHANGED <<inputVars, matVars, barVars, heapVars, workerVars>>
    /\ UNCHANGED <<rf, cwcount, freed_read>>

\* Mutant: the join returns 0 without waiting for the worker to terminate.
MainJoin_NoWait ==
    /\ pc = "join"
    /\ t < nthreads
    /\ joined' = [joined EXCEPT ![t] = TRUE]
    /\ t' = t + 1
    /\ UNCHANGED <<pc, status, cerr, stamps, base, rem, start, nthreads, fout>>
    /\ UNCHANGED <<inputVars, matVars, barVars, heapVars, workerVars>>
    /\ UNCHANGED <<rf, cwcount, freed_read>>

\* pthread_join(threads[t]) returns 0: worker t has terminated.
MainJoin ==
    /\ pc = "join"
    /\ t < nthreads
    /\ wstate[t] = "done"
    /\ joined' = [joined EXCEPT ![t] = TRUE]
    /\ t' = t + 1
    /\ UNCHANGED <<pc, status, cerr, stamps, base, rem, start, nthreads, fout>>
    /\ UNCHANGED <<inputVars, matVars, barVars, heapVars, workerVars>>
    /\ UNCHANGED <<rf, cwcount, freed_read>>

\* pthread_join(threads[t]) returns non-zero: diagnostic, delete[] both
\* arrays; the return statement is MainReturnFailure.
MainJoinFail ==
    /\ pc = "join"
    /\ t < nthreads
    /\ cerr' = Append(cerr, "Failed to join multiply thread")
    /\ threads_live' = FALSE
    /\ targs_live' = FALSE
    /\ pc' = "join_failed"
    /\ UNCHANGED <<status, stamps, base, rem, start, t, nthreads, fout, joined,
                   targs>>
    /\ UNCHANGED <<inputVars, matVars, barVars, workerVars>>
    /\ UNCHANGED <<rf, cwcount, freed_read>>

\* Mutant: the failure paths return 0.
MainReturnFailure_Zero ==
    /\ pc \in {"create_failed", "join_failed"}
    /\ status' = 0
    /\ pc' = "returned"
    /\ UNCHANGED <<cerr, stamps, base, rem, start, t, nthreads, fout, joined>>
    /\ UNCHANGED <<inputVars, matVars, barVars, heapVars, workerVars>>
    /\ UNCHANGED <<rf, cwcount, freed_read>>

\* return 1; after a failed pthread_create or pthread_join.
MainReturnFailure ==
    /\ pc \in {"create_failed", "join_failed"}
    /\ status' = 1
    /\ pc' = "returned"
    /\ UNCHANGED <<cerr, stamps, base, rem, start, t, nthreads, fout, joined>>
    /\ UNCHANGED <<inputVars, matVars, barVars, heapVars, workerVars>>
    /\ UNCHANGED <<rf, cwcount, freed_read>>

\* Mutant: the join loop stops one worker short.
MainStampEnd_EarlyExit ==
    /\ pc = "join"
    /\ t >= nthreads - 1
    /\ stamps' = stamps \cup {"t2"}
    /\ pc' = "destroy"
    /\ UNCHANGED <<status, cerr, base, rem, start, t, nthreads, fout, joined>>
    /\ UNCHANGED <<inputVars, matVars, barVars, heapVars, workerVars>>
    /\ UNCHANGED <<rf, cwcount, freed_read>>

\* Join loop exit: auto t2 = clock::now();
MainStampEnd ==
    /\ pc = "join"
    /\ t >= nthreads
    /\ stamps' = stamps \cup {"t2"}
    /\ pc' = "destroy"
    /\ UNCHANGED <<status, cerr, base, rem, start, t, nthreads, fout, joined>>
    /\ UNCHANGED <<inputVars, matVars, barVars, heapVars, workerVars>>
    /\ UNCHANGED <<rf, cwcount, freed_read>>

\* pthread_barrier_destroy(&start_barrier);
MainDestroy ==
    /\ pc = "destroy"
    /\ bar_state' = "destroyed"
    /\ pc' = "free"
    /\ UNCHANGED <<status, cerr, stamps, base, rem, start, t, nthreads, fout,
                   joined, bar_count, bar_waiting, bar_arrivals, bar_releases>>
    /\ UNCHANGED <<inputVars, matVars, heapVars, workerVars>>
    /\ UNCHANGED <<rf, cwcount, freed_read>>

\* delete[] threads; delete[] targs;
MainFree ==
    /\ pc = "free"
    /\ threads_live' = FALSE
    /\ targs_live' = FALSE
    /\ pc' = "print"
    /\ UNCHANGED <<status, cerr, stamps, base, rem, start, t, nthreads, fout,
                   joined, targs>>
    /\ UNCHANGED <<inputVars, matVars, barVars, workerVars>>
    /\ UNCHANGED <<rf, cwcount, freed_read>>

\* Row-major dump of m: rows 0 .. n-1.
RECURSIVE RowMajor(_, _, _)
RowMajor(m, n, dim) ==
    IF n = 0 THEN <<>>
    ELSE RowMajor(m, n - 1, dim) \o [j \in 1..dim |-> m[n - 1][j - 1]]

\* print(); auto t3 = clock::now();
MainPrint ==
    /\ pc = "print"
    /\ fout' = RowMajor(matrix_c, DIM, DIM)
    /\ stamps' = stamps \cup {"t3"}
    /\ pc' = "report"
    /\ UNCHANGED <<status, cerr, base, rem, start, t, nthreads, joined>>
    /\ UNCHANGED <<inputVars, matVars, barVars, heapVars, workerVars>>
    /\ UNCHANGED <<rf, cwcount, freed_read>>

\* Keys of the lines written to profile_results.txt.
ReportKeys ==
    <<"init", "mult", "print", "total", "init_ops", "mul_ops", "add_ops",
      "print_ops", "sec_per_init_op", "sec_per_mult_op", "sec_per_print_op">>

\* Profiling summary and profile_results.txt; return 0.
MainReport ==
    /\ pc = "report"
    /\ rf' = ReportKeys
    /\ status' = 0
    /\ pc' = "returned"
    /\ UNCHANGED <<cerr, stamps, base, rem, start, t, nthreads, fout, joined>>
    /\ UNCHANGED <<inputVars, matVars, barVars, heapVars, workerVars>>
    /\ UNCHANGED <<cwcount, freed_read>>

--------------------------------------------------------------------------
\* multiply_range.  A worker takes steps only while the process lives, that
\* is until main has returned.

Alive == pc # "returned"

\* Mutant: the worker's barrier wait returns at once.
WorkerBarrierWait_NoBlock(w) ==
    /\ Alive
    /\ wstate[w] = "created"
    /\ bar_arrivals' = bar_arrivals + 1
    /\ wstate' = [wstate EXCEPT ![w] = "released"]
    /\ UNCHANGED <<mainVars, nthreads, fout, joined, wi, wj,
                   bar_state, bar_count, bar_waiting, bar_releases>>
    /\ UNCHANGED <<inputVars, matVars, heapVars>>
    /\ UNCHANGED <<rf, cwcount, freed_read>>

\* pthread_barrier_wait(&start_barrier) in worker w.
WorkerBarrierWait(w) ==
    /\ Alive
    /\ wstate[w] = "created"
    /\ bar_arrivals' = bar_arrivals + 1
    /\ IF bar_waiting + 1 = bar_count
       THEN /\ bar_waiting' = 0
            /\ bar_releases' = bar_releases + 1
            /\ wstate' = [ReleaseWorkers(wstate) EXCEPT ![w] = "released"]
            /\ pc' = IF pc = "blocked" THEN "stamp" ELSE pc
       ELSE /\ bar_waiting' = bar_waiting + 1
            /\ wstate' = [wstate EXCEPT ![w] = "waiting"]
            /\ UNCHANGED <<bar_releases, pc>>
    /\ UNCHANGED <<status, cerr, stamps, base, rem, start, t, nthreads, fout,
                   joined, bar_state, bar_count, wi, wj>>
    /\ UNCHANGED <<inputVars, matVars, heapVars>>
    /\ UNCHANGED <<rf, cwcount, freed_read>>

\* int i = a->row_start;
WorkerStart(w) ==
    /\ Alive
    /\ wstate[w] = "released"
    /\ \E v \in ReadRowStart(w) : wi' = [wi EXCEPT ![w] = v]
    /\ freed_read' = (freed_read \/ ~targs_live)
    /\ wstate' = [wstate EXCEPT ![w] = "rowtest"]
    /\ UNCHANGED <<mainVars, nthreads, fout, joined, wj>>
    /\ UNCHANGED <<inputVars, matVars, barVars, heapVars>>
    /\ UNCHANGED <<rf, cwcount>>

\* Mutant: the row loop tests i + 1 < a->row_end.
WorkerRowTest_StopsEarly(w) ==
    /\ Alive
    /\ wstate[w] = "rowtest"
    /\ \E v \in ReadRowEnd(w) :
          IF wi[w] + 1 < v
          THEN /\ wstate' = [wstate EXCEPT ![w] = "cell"]
               /\ wj' = [wj EXCEPT ![w] = 0]
          ELSE /\ wstate' = [wstate EXCEPT ![w] = "done"]
               /\ UNCHANGED wj
    /\ freed_read' = (freed_read \/ ~targs_live)
    /\ UNCHANGED <<mainVars, nthreads, fout, joined, wi>>
    /\ UNCHANGED <<inputVars, matVars, barVars, heapVars>>
    /\ UNCHANGED <<rf, cwcount>>

\* i < a->row_end ?  then arow = matrix_a[i], j = 0 : else return nullptr.
WorkerRowTest(w) ==
    /\ Alive
    /\ wstate[w] = "rowtest"
    /\ \E v \in ReadRowEnd(w) :
          IF wi[w] < v
          THEN /\ wstate' = [wstate EXCEPT ![w] = "cell"]
               /\ wj' = [wj EXCEPT ![w] = 0]
          ELSE /\ wstate' = [wstate EXCEPT ![w] = "done"]
               /\ UNCHANGED wj
    /\ freed_read' = (freed_read \/ ~targs_live)
    /\ UNCHANGED <<mainVars, nthreads, fout, joined, wi>>
    /\ UNCHANGED <<inputVars, matVars, barVars, heapVars>>
    /\ UNCHANGED <<rf, cwcount>>

\* One iteration of the j loop: the k loop, then matrix_c[i][j] = sum; ++j,
\* and ++i when the j loop ends.
WorkerCell(w) ==
    /\ Alive
    /\ wstate[w] = "cell"
    /\ LET i == wi[w]
           j == wj[w]
           sum == RowDot(matrix_a[i], matrix_b_t[j], DIM)
       IN /\ matrix_c' = [matrix_c EXCEPT ![i][j] = sum]
          /\ cwrites' = [cwrites EXCEPT ![i][j] = @ \cup {w}]
          /\ cwcount' = [cwcount EXCEPT ![i][j] = @ + 1]
          /\ IF j + 1 < DIM
             THEN /\ wj' = [wj EXCEPT ![w] = j + 1]
                  /\ UNCHANGED <<wi, wstate>>
             ELSE /\ wi' = [wi EXCEPT ![w] = i + 1]
                  /\ wstate' = [wstate EXCEPT ![w] = "rowtest"]
                  /\ UNCHANGED wj
    /\ UNCHANGED <<mainVars, nthreads, fout, joined,
                   matrix_a, matrix_b, matrix_b_t>>
    /\ UNCHANGED <<inputVars, barVars, heapVars>>
    /\ UNCHANGED <<rf, freed_read>>

--------------------------------------------------------------------------
Next ==
    \/ MainInit
    \/ MainParse
    \/ MainBarrierInit
    \/ MainBarrierInitFail
    \/ MainSpawn
    \/ MainSpawnFail
    \/ MainBarrierWait
    \/ MainStamp
    \/ MainJoin
    \/ MainJoinFail
    \/ MainReturnFailure
    \/ MainStampEnd
    \/ MainDestroy
    \/ MainFree
    \/ MainPrint
    \/ MainReport
    \/ \E w \in DOMAIN wstate : WorkerBarrierWait(w)
    \/ \E w \in DOMAIN wstate : WorkerStart(w)
    \/ \E w \in DOMAIN wstate : WorkerRowTest(w)
    \/ \E w \in DOMAIN wstate : WorkerCell(w)

Spec == Init /\ [][Next]_vars

\* Scheduling.  Each thread that can take a step of its own code eventually
\* takes one; whether pthread_barrier_init, pthread_create or pthread_join
\* fails is up to the system and is under no fairness.
MainStep ==
    \/ MainInit
    \/ MainParse
    \/ MainBarrierInit
    \/ MainSpawn
    \/ MainBarrierWait
    \/ MainStamp
    \/ MainJoin
    \/ MainReturnFailure
    \/ MainStampEnd
    \/ MainDestroy
    \/ MainFree
    \/ MainPrint
    \/ MainReport

WorkerStep(w) ==
    /\ w \in DOMAIN wstate
    /\ \/ WorkerBarrierWait(w)
       \/ WorkerStart(w)
       \/ WorkerRowTest(w)
       \/ WorkerCell(w)

Fairness ==
    /\ WF_vars(MainStep)
    /\ \A w \in 0..(MaxDim - 1) : WF_vars(WorkerStep(w))

SpecFair == Init /\ [][Next]_vars /\ Fairness

\* main alone, from entry to the end of its thread-creation loop, on larger
\* dimensions: the created workers have not been scheduled yet.
NextPart ==
    \/ MainInit
    \/ MainParse
    \/ MainBarrierInit
    \/ MainSpawn

SpecPart == InitPart /\ [][NextPart]_vars

--------------------------------------------------------------------------
\* Vocabulary of the properties.

\* main has called pthread_barrier_wait.
MainArrived == pc \in {"blocked", "stamp"} \/ "t_start_mult" \in stamps

\* Worker w has called pthread_barrier_wait.
WorkerArrived(w) == wstate[w] \in {"waiting", "released", "rowtest", "cell", "done"}

\* Worker w's pthread_barrier_wait has returned.
PastBarrier(w) == wstate[w] \in {"released", "rowtest", "cell", "done"}

\* Worker w has taken the first step of its compute loop.
EnteredComputing(w) == wstate[w] \in {"rowtest", "cell", "done"}

\* Every element of targs has been given its two fields.
AllAssigned ==
    /\ targs # <<>>
    /\ \A w \in DOMAIN targs : targs[w] # Unwritten

\* pthread_join has returned 0 for every worker.
AllJoined ==
    /\ joined # <<>>
    /\ \A w \in DOMAIN joined : joined[w]

CreateFailed ==
    \E n \in 1..Len(cerr) : cerr[n] = "Failed to create multiply thread"

\* Sum over k < n of a[i][k] * b[k][j].
RECURSIVE ProductCell(_, _, _, _, _)
ProductCell(a, b, i, j, n) ==
    IF n = 0 THEN 0
    ELSE ProductCell(a, b, i, j, n - 1) + a[i][n - 1] * b[n - 1][j]

\* Sum over k < n of (i + k) * (k - j).
RECURSIVE ReferenceCell(_, _, _)
ReferenceCell(i, j, n) ==
    IF n = 0 THEN 0
    ELSE ReferenceCell(i, j, n - 1) + (i + (n - 1)) * ((n - 1) - j)

RowsOf(w) == targs[w].row_start .. (targs[w].row_end - 1)

--------------------------------------------------------------------------
\* C1: no worker is past its barrier wait (so none has read its row range or
\* written a cell of matrix_c) unless nthreads + 1 arrivals have occurred:
\* every worker and main have called pthread_barrier_wait.
C1_NoComputeBeforeAllArrive ==
    \A w \in DOMAIN wstate :
        (PastBarrier(w) \/ \E i \in Idx, j \in Idx : w \in cwrites[i][j])
            => /\ bar_arrivals >= nthreads + 1
               /\ MainArrived
               /\ \A v \in DOMAIN wstate : WorkerArrived(v)

C1_Witness ==
    /\ nthreads = 2
    /\ bar_arrivals = 3
    /\ \E w \in DOMAIN wstate : wstate[w] = "cell"

\* C2 as stated: a worker that has taken its first compute step finds
\* t_start_mult already recorded by main.
C2_Original ==
    \A w \in DOMAIN wstate : EnteredComputing(w) => "t_start_mult" \in stamps

\* C2 as amended: a worker that has taken its first compute step finds that
\* main has already called pthread_barrier_wait; t_start_mult itself may
\* still be unrecorded.
C2_ComputeAfterMainArrives ==
    \A w \in DOMAIN wstate : EnteredComputing(w) => MainArrived

C2_Witness ==
    /\ MainArrived
    /\ "t_start_mult" \notin stamps
    /\ \E w \in DOMAIN wstate : wstate[w] = "done"

\* C3: whenever t_start_mult is recorded, the barrier has released and every
\* worker, like main, has arrived at it.
C3_StampAfterRelease ==
    "t_start_mult" \in stamps
        => /\ bar_releases >= 1
           /\ bar_arrivals >= nthreads + 1
           /\ \A w \in Workers : w \in DOMAIN wstate /\ WorkerArrived(w)

C3_Witness ==
    /\ "t_start_mult" \in stamps
    /\ nthreads = 2
    /\ \A w \in DOMAIN wstate : wstate[w] = "released"

\* C4: whenever t2 is recorded, every worker has finished its row range and
\* returned, and has been joined.
C4_EndStampAfterJoins ==
    "t2" \in stamps
        => \A w \in Workers :
              /\ w \in DOMAIN wstate
              /\ wstate[w] = "done"
              /\ joined[w]

C4_Witness ==
    /\ "t2" \in stamps
    /\ nthreads = 2
    /\ pc = "destroy"

\* C5: once every worker is joined, matrix_c is the standard product of
\* matrix_a and matrix_b, and is the same function of the dimension alone
\* whatever the worker count and the interleaving.
C5_StandardProduct ==
    AllJoined
        => \A i \in Idx, j \in Idx :
              /\ matrix_c[i][j] = ProductCell(matrix_a, matrix_b, i, j, DIM)
              /\ matrix_c[i][j] = ReferenceCell(i, j, DIM)

C5_Witness ==
    /\ AllJoined
    /\ DIM = 2
    /\ nthreads = 2
    /\ matrix_c[1][0] = 2

\* C6: once main has filled targs, every row index of [0, DIM) lies in the
\* range of exactly one worker and no range leaves [0, DIM).
C6_RangesPartitionRows ==
    AllAssigned
        => /\ \A r \in Idx :
                 Cardinality({w \in DOMAIN targs : r \in RowsOf(w)}) = 1
           /\ \A w \in DOMAIN targs :
                 /\ 0 <= targs[w].row_start
                 /\ targs[w].row_start <= targs[w].row_end
                 /\ targs[w].row_end <= DIM

C6_Witness ==
    /\ AllAssigned
    /\ DIM = 5
    /\ nthreads = 2
    /\ targs[1] = [row_start |-> 3, row_end |-> 5]

\* C7: once main has filled targs, worker w has DIM div nthreads rows, plus
\* one when w < DIM mod nthreads; range 0 starts at row 0 and each range
\* starts where the one before ends; sizes differ by at most one, and with
\* nthreads = DIM every worker has exactly one row.
C7_RangeSizes ==
    AllAssigned
        => /\ targs[0].row_start = 0
           /\ \A w \in DOMAIN targs :
                 /\ targs[w].row_end - targs[w].row_start
                       = (DIM \div nthreads)
                            + (IF w < DIM % nthreads THEN 1 ELSE 0)
                 /\ (w + 1) \in DOMAIN targs
                       => targs[w + 1].row_start = targs[w].row_end
                 /\ nthreads = DIM
                       => targs[w].row_end - targs[w].row_start = 1
           /\ \A v, w \in DOMAIN targs :
                 (targs[v].row_end - targs[v].row_start)
                     - (targs[w].row_end - targs[w].row_start) <= 1

C7_Witness ==
    /\ AllAssigned
    /\ DIM = 5
    /\ nthreads = 3
    /\ targs[2] = [row_start |-> 4, row_end |-> 5]

\* C8: from the moment the worker count is settled (before the barrier is
\* initialised and before any range is computed) it is the requested count
\* clamped to DIM; every range written to targs is non-empty; and DIM = 1
\* with 4 requested runs exactly one worker, over [0, 1).
C8_ClampedNonEmpty ==
    /\ pc \notin {"start", "parse"}
          => /\ nthreads <= DIM
             /\ RequestedThreads(argc, argv1) > DIM => nthreads = DIM
    /\ bar_state # "uninit" => bar_count <= DIM + 1
    /\ \A w \in DOMAIN targs :
          targs[w] # Unwritten => targs[w].row_start < targs[w].row_end
    /\ (DIM = 1 /\ RequestedThreads(argc, argv1) = 4 /\ wstate # <<>>)
          => /\ DOMAIN wstate = {0}
             /\ targs[0] \in {Unwritten, [row_start |-> 0, row_end |-> 1]}

C8_Witness ==
    /\ DIM = 1
    /\ argc = 2
    /\ argv1 = <<"4">>
    /\ DOMAIN wstate = {0}
    /\ wstate[0] = "done"
    /\ cwrites[0][0] = {0}

\* C9 as stated: every cell of matrix_c is written only by the worker whose
\* assigned range holds its row, hence by at most one worker, and print()
\* reads matrix_c only when no worker can still write.
C9_Original ==
    /\ \A i \in Idx, j \in Idx :
          /\ \A w \in cwrites[i][j] : i \in RowsOf(w)
          /\ Cardinality(cwrites[i][j]) <= 1
    /\ pc = "print" => \A w \in DOMAIN wstate : wstate[w] = "done"

\* C10 as stated: when a pthread_create has failed and main has returned, the
\* status is non-zero, start_barrier is destroyed, and no worker that was
\* created is left unjoined.
C10_Original ==
    (pc = "returned" /\ CreateFailed)
        => /\ status # 0
           /\ bar_state = "destroyed"
           /\ \A w \in DOMAIN wstate : wstate[w] # "none" => joined[w]

\* C11: once a pthread_create has failed, main is on its way out or has
\* returned 1: it has not called pthread_barrier_wait, has recorded none of
\* t_start_mult, t2 and t3, has written neither serial.txt nor
\* profile_results.txt, and its only output is the one diagnostic.
C11_NothingAfterCreateFailure ==
    CreateFailed
        => /\ pc \in {"create_failed", "returned"}
           /\ pc = "returned" => status = 1
           /\ ~MainArrived
           /\ stamps \cap {"t_start_mult", "t2", "t3"} = {}
           /\ fout = <<>>
           /\ rf = <<>>
           /\ cerr = <<"Failed to create multiply thread">>

C11_Witness ==
    /\ CreateFailed
    /\ pc = "returned"
    /\ status = 1
    /\ nthreads = 2
    /\ wstate = [w \in {0, 1} |-> "none"]

\* C12: a worker exists only when start_barrier is initialised, with
\* nthreads + 1 participants; and start_barrier is destroyed only when every
\* worker has left the barrier, finished its rows and been joined.
C12_BarrierLifecycle ==
    /\ (\E w \in DOMAIN wstate : wstate[w] # "none") => bar_state # "uninit"
    /\ bar_state # "uninit" => bar_count = nthreads + 1
    /\ bar_state = "destroyed"
          => /\ bar_waiting = 0
             /\ \A w \in Workers :
                   /\ w \in DOMAIN wstate
                   /\ wstate[w] = "done"
                   /\ joined[w]

C12_Witness ==
    /\ bar_state = "destroyed"
    /\ bar_count = 3
    /\ pc = "free"

\* C13: when main has returned, its status is 0 or 1, and it is 0 exactly
\* when the barrier was initialised, every worker was created and every
\* worker was joined, that is exactly when no failure was reported.
C13_ExitStatus ==
    pc = "returned"
        => /\ status \in {0, 1}
           /\ status = 0
                 <=> /\ bar_state # "uninit"
                     /\ DOMAIN wstate = Workers
                     /\ \A w \in Workers : wstate[w] # "none" /\ joined[w]
           /\ status = 0 <=> cerr = <<>>

C13_Witness ==
    /\ pc = "returned"
    /\ status = 1
    /\ cerr = <<"Failed to join multiply thread">>
    /\ \E w \in DOMAIN joined : joined[w]

\* C14: once main has settled the worker count, it is 4 when argv[1] is
\* absent or atoi of it is not positive, atoi of it otherwise, in both cases
\* lowered to DIM when larger; so it lies in 1..DIM, and a failure exit is
\* always one of the three reported resource failures.
C14_EffectiveWorkerCount ==
    LET asked == IF argc <= 1 \/ Atoi(argv1) <= 0 THEN 4 ELSE Atoi(argv1)
    IN /\ pc \notin {"start", "parse"}
             => /\ nthreads = (IF asked > DIM THEN DIM ELSE asked)
                /\ nthreads \in 1..DIM
       /\ pc = "barrier_init" => status = -1 /\ cerr = <<>>
       /\ (pc = "returned" /\ status # 0)
             => cerr \in {<<"Failed to init barrier">>,
                          <<"Failed to create multiply thread">>,
                          <<"Failed to join multiply thread">>}

C14_Witness ==
    /\ argc = 2
    /\ argv1 = <<"-", "1">>
    /\ DIM = 2
    /\ nthreads = 2
    /\ pc = "returned"
    /\ status = 0

\* pthread_create has returned 0 for every worker.
AllCreated ==
    /\ wstate # <<>>
    /\ \A w \in DOMAIN wstate : wstate[w] # "none"

JoinFailed ==
    \E n \in 1..Len(cerr) : cerr[n] = "Failed to join multiply thread"

\* Steps of a worker: CREATED (created), WAITING_AT_BARRIER (waiting; the
\* last participant to arrive passes through it within its one step),
\* COMPUTING (released, rowtest, cell), DONE (done).
WorkerOrder ==
    {<<"none", "created">>, <<"created", "waiting">>, <<"created", "released">>,
     <<"waiting", "released">>, <<"released", "rowtest">>,
     <<"rowtest", "cell">>, <<"cell", "rowtest">>, <<"cell", "cell">>,
     <<"rowtest", "done">>}

C17_WrittenBeforePrint ==
    (pc \in {"print", "report"} \/ (pc = "returned" /\ status = 0))
        => /\ \A i \in Idx, j \in Idx :
                 /\ cwcount[i][j] = 1
                 /\ \E w \in Workers : cwrites[i][j] = {w} /\ i \in RowsOf(w)
                 /\ matrix_c[i][j] = ReferenceCell(i, j, DIM)
           /\ pc # "print"
                 => /\ Len(fout) = DIM * DIM
                    /\ \A i \in Idx, j \in Idx :
                          fout[i * DIM + j + 1] = ReferenceCell(i, j, DIM)

C17_Witness ==
    /\ pc = "print"
    /\ DIM = 2
    /\ nthreads = 2
    /\ cwrites[0][1] = {0}
    /\ cwrites[1][1] = {1}

\* Number of participants that have called pthread_barrier_wait.
NumArrived ==
    Cardinality({w \in DOMAIN wstate : WorkerArrived(w)})
        + (IF MainArrived THEN 1 ELSE 0)

\* C18 as stated, at the end of a run that initialised the barrier: when main
\* has returned, exactly nthreads + 1 arrivals have occurred and the barrier
\* has released once.
C18_Original ==
    (pc = "returned" /\ bar_state # "uninit")
        => bar_arrivals = nthreads + 1 /\ bar_releases = 1

\* C18 as amended: no participant arrives twice; the barrier releases, once,
\* exactly when nthreads + 1 arrivals have occurred, which is the case
\* whenever main has recorded t_start_mult; and when a pthread_create has
\* failed, fewer than nthreads arrivals occur and the barrier never releases.
C18_ArrivalsAndRelease ==
    /\ bar_arrivals = NumArrived
    /\ bar_state # "uninit" => bar_arrivals <= nthreads + 1
    /\ bar_releases =
          (IF bar_state # "uninit" /\ bar_arrivals = nthreads + 1 THEN 1 ELSE 0)
    /\ "t_start_mult" \in stamps => bar_arrivals = nthreads + 1
    /\ CreateFailed => bar_arrivals < nthreads /\ bar_releases = 0

C18_Witness ==
    /\ pc = "returned"
    /\ CreateFailed
    /\ nthreads = 2
    /\ bar_arrivals = 1
    /\ bar_releases = 0

\* C19: once pthread_create has failed for worker t, at most t < nthreads
\* arrivals have occurred, the barrier has not released, every worker created
\* before is still before or inside its barrier wait, and matrix_c is all 0
\* and unwritten.
C19_NoComputeAfterCreateFailure ==
    CreateFailed
        => /\ t < nthreads
           /\ bar_arrivals <= t
           /\ bar_releases = 0
           /\ \A w \in DOMAIN wstate :
                 /\ wstate[w] \in {"none", "created", "waiting"}
                 /\ w >= t => wstate[w] = "none"
           /\ \A i \in Idx, j \in Idx :
                 matrix_c[i][j] = 0 /\ cwcount[i][j] = 0

C19_Witness ==
    /\ CreateFailed
    /\ pc = "create_failed"
    /\ t = 1
    /\ wstate[0] = "waiting"

\* C20 as stated: no worker has read a field of its ThreadArgs element after
\* delete[] targs, and every created worker's element has both fields written.
C20_Original ==
    /\ ~freed_read
    /\ \A w \in DOMAIN wstate : wstate[w] # "none" => targs[w] # Unwritten

====
